---- MODULE Spec2Model ----
(***************************************************************************)
(* Daily Notes Digest (Obsidian plugin): the date-driven processing        *)
(* pipeline of DailyNotesDigestPlugin -- heartbeat, Day Processor          *)
(* (processDateIfNeeded), Path Resolver (getDailyNotePath, getSummaryPath) *)
(* and Archivist (sortDailyNotes, sortSummaries) -- as a state machine.    *)
(* Every invocation is a task that advances from one await to the next;    *)
(* between two awaits other callbacks run, the wall clock advances and the *)
(* user changes settings or files.                                         *)
(***************************************************************************)
EXTENDS Integers, Sequences, FiniteSets, TLC

\* ------------------------------------------------------------- bounds
\* Wall-clock days covered: the clock starts on day 2 and stops on MaxDay.
MaxDay == 3
\* Invocations (callbacks) that may be in flight at the same time.
MaxTasks == 2

\* ------------------------------------------------- program constants
\* noteContents.length < 20
MinNoteLength == 20

Days == 1..MaxDay
Tasks == 1..MaxTasks
\* No stamp, no path, no text
Null == <<>>

\* ------------------------------------------------------------ strings
\* A string is a sequence of one-character strings.
Rep(ch, n) == [i \in 1..n |-> ch]

IsSpace(c) == c \in {" ", "\n", "\t"}

RECURSIVE TrimStart(_)
TrimStart(s) ==
  IF s = <<>> THEN <<>>
  ELSE IF IsSpace(Head(s)) THEN TrimStart(Tail(s)) ELSE s

RECURSIVE TrimEnd(_)
TrimEnd(s) ==
  IF s = <<>> THEN <<>>
  ELSE IF IsSpace(s[Len(s)]) THEN TrimEnd(SubSeq(s, 1, Len(s) - 1)) ELSE s

\* String.prototype.trim
Trim(s) == TrimEnd(TrimStart(s))

Digit(n) == <<"0", "1", "2", "3", "4", "5", "6", "7", "8", "9">>[n + 1]

\* `${n}`.padStart(2, "0") for 0 <= n <= 99
Pad2(n) == <<Digit(n \div 10), Digit(n % 10)>>

Year4(y) ==
  <<Digit(y \div 1000), Digit((y \div 100) % 10), Digit((y \div 10) % 10), Digit(y % 10)>>

\* UTF-16 code units of the characters a date stamp is made of
CharCode(c) ==
  CASE c = "-" -> 45
    [] c = "0" -> 48 [] c = "1" -> 49 [] c = "2" -> 50 [] c = "3" -> 51
    [] c = "4" -> 52 [] c = "5" -> 53 [] c = "6" -> 54 [] c = "7" -> 55
    [] c = "8" -> 56 [] c = "9" -> 57

\* a < b on JavaScript strings: the first differing code unit decides, and a
\* proper prefix is smaller.
RECURSIVE StringLess(_, _)
StringLess(a, b) ==
  IF b = <<>> THEN FALSE
  ELSE IF a = <<>> THEN TRUE
  ELSE IF Head(a) = Head(b) THEN StringLess(Tail(a), Tail(b))
  ELSE CharCode(Head(a)) < CharCode(Head(b))

\* -------------------------------------------------------------- dates
\* new Date() on wall-clock day n: the local calendar fields (getFullYear,
\* getMonth (0-based), getDate).  Day 1 is 2025-12-30, so that the days of
\* the model cross a month and a year boundary.
DateOf(n) ==
  IF n <= 2 THEN [year |-> 2025, month |-> 11, date |-> 29 + n]
  ELSE [year |-> 2026, month |-> 0, date |-> n - 2]

\* `${year}-${month}-${day}` with month and day padded to two digits
getLocalDateStamp(date) ==
  Year4(date.year) \o <<"-">> \o Pad2(date.month + 1) \o <<"-">> \o Pad2(date.date)

\* yesterdayDate.setDate(now.getDate() - 1): calendar arithmetic
YesterdayOf(n) == DateOf(n - 1)

getYesterdayStamp(now) == getLocalDateStamp(YesterdayOf(now))

\* s.split(sep): the pieces between the separators
RECURSIVE Split(_, _, _)
Split(s, sep, piece) ==
  IF s = <<>> THEN <<piece>>
  ELSE IF Head(s) = sep THEN <<piece>> \o Split(Tail(s), sep, <<>>)
  ELSE Split(Tail(s), sep, Append(piece, Head(s)))

\* const [year, month] = dateStamp.split("-")
getDateParts(dateStamp) ==
  [year |-> Split(dateStamp, "-", <<>>)[1], month |-> Split(dateStamp, "-", <<>>)[2]]

\* A comparison that also holds of equal stamps.
isDateStampBeforeOrEqual(a, b) == a = b \/ StringLess(a, b)

isDateStampBefore(a, b) == StringLess(a, b)

Stamps == {getLocalDateStamp(DateOf(n)) : n \in Days}

\* -------------------------------------------------------------- paths
\* A path is the sequence of its segments, each a string.
dailyNotesFolder == << <<"D", "a", "i", "l", "y">> >>
outputFolder ==
  << <<"D", "a", "i", "l", "y", " ", "S", "u", "m", "m", "a", "r", "i", "e", "s">> >>

NoteSuffix == <<".", "m", "d">>
SummarySuffix == <<"_", "s", "u", "m", "m", "a", "r", "y", ".", "m", "d">>

NoteName(stamp) == stamp \o NoteSuffix
\* A summary named as the note is.
SummaryNameAsNote(stamp) == stamp \o NoteSuffix

SummaryName(stamp) == stamp \o SummarySuffix

IsDigit(c) == c \in {"0", "1", "2", "3", "4", "5", "6", "7", "8", "9"}

\* \d{4}-\d{2}-\d{2}
IsDateText(s) ==
  /\ Len(s) = 10
  /\ \A i \in {1, 2, 3, 4, 6, 7, 9, 10} : IsDigit(s[i])
  /\ s[5] = "-" /\ s[8] = "-"

\* The date a file name carries before the given suffix, or Null.
DatedName(name, suffix) ==
  IF /\ Len(name) = 10 + Len(suffix)
     /\ IsDateText(SubSeq(name, 1, 10))
     /\ SubSeq(name, 11, Len(name)) = suffix
  THEN SubSeq(name, 1, 10) ELSE Null

\* A match that is not anchored at the start of the name.
getDailyNoteDateStampLoose(name) ==
  IF Len(name) < 10 + Len(NoteSuffix) THEN Null
  ELSE DatedName(SubSeq(name, Len(name) - 9 - Len(NoteSuffix), Len(name)), NoteSuffix)

\* filename.match(/^(\d{4}-\d{2}-\d{2})\.md$/)
getDailyNoteDateStamp(name) == DatedName(name, NoteSuffix)

\* filename.match(/^(\d{4}-\d{2}-\d{2})_summary\.md$/)
getSummaryDateStamp(name) == DatedName(name, SummarySuffix)

NestedFolder(base, stamp) ==
  base \o <<getDateParts(stamp).year, getDateParts(stamp).month>>

FlatNotePath(stamp) == dailyNotesFolder \o <<NoteName(stamp)>>
NestedNotePath(stamp) == NestedFolder(dailyNotesFolder, stamp) \o <<NoteName(stamp)>>
FlatSummaryPath(stamp) == outputFolder \o <<SummaryName(stamp)>>
NestedSummaryPath(stamp) == NestedFolder(outputFolder, stamp) \o <<SummaryName(stamp)>>

\* The note path is nested for every day but today when sorting is on.
NoteIsNested(sorting, dateStamp, today) == sorting /\ dateStamp # today

getDailyNotePath(sorting, dateStamp, now) ==
  IF NoteIsNested(sorting, dateStamp, getLocalDateStamp(DateOf(now)))
  THEN NestedNotePath(dateStamp)
  ELSE FlatNotePath(dateStamp)

\* The summary path is nested for a day strictly before yesterday when
\* sorting is on.
SummaryIsNested(sorting, dateStamp, yesterday) ==
  sorting /\ isDateStampBefore(dateStamp, yesterday)

getSummaryPath(sorting, dateStamp, now) ==
  IF SummaryIsNested(sorting, dateStamp, getYesterdayStamp(now))
  THEN NestedSummaryPath(dateStamp)
  ELSE FlatSummaryPath(dateStamp)

\* outputPath.split("/").slice(0, -1)
ParentOf(path) == SubSeq(path, 1, Len(path) - 1)

\* ---------------------------------------------------- note and summary
ShortNote == <<" ">> \o Rep("x", MinNoteLength - 1) \o <<"\n">>
LongNote == <<"\n">> \o Rep("x", MinNoteLength) \o <<" ">>
NoteTexts == {ShortNote, LongNote}

\* What requestUrl may answer: a rejection, or a response with a status and
\* choices[0].message.content (isString tells whether it is a string).
Rejected == [rejected |-> TRUE, status |-> 0, isString |-> FALSE, content |-> <<>>]
Response(status, content) ==
  [rejected |-> FALSE, status |-> status, isString |-> TRUE, content |-> content]
NotAString(status) ==
  [rejected |-> FALSE, status |-> status, isString |-> FALSE, content |-> <<>>]
SummaryTexts == {<<>>, <<" ", "\n">>, <<" ", "o", "k", "\n">>}
NoResponse == [rejected |-> FALSE, status |-> 0, isString |-> FALSE, content |-> <<>>]
Responses ==
  {Rejected, Response(500, <<"o", "k">>), NotAString(200)}
    \cup {Response(200, s) : s \in SummaryTexts}

\* `\n\n---\n\n[Original note](${dateStamp})`
Backlink(dateStamp) ==
  <<"\n", "\n", "-", "-", "-", "\n", "\n">>
    \o <<"[", "O", "r", "i", "g", "i", "n", "a", "l", " ", "n", "o", "t", "e", "]", "(">>
    \o dateStamp \o <<")">>

\* summary.trim() + backlink, then finalContent.trim() + "\n"
FinalContent(summary, dateStamp) ==
  Trim(Trim(summary) \o Backlink(dateStamp)) \o <<"\n">>

\* ------------------------------------------------------------- state
VARIABLES
  clock,      \* the wall-clock day
  files,      \* the vault's files: path -> content
  folders,    \* the vault's folders
  settings,   \* this.settings
  tasks,      \* the invocations in flight, each at an await
  phase,      \* "loading": onload awaits its first run; "running": the
              \* heartbeat is scheduled; "failed": onload threw
  intervals   \* the delays, in milliseconds, of the timers registered

vars == <<clock, files, folders, settings, tasks, phase, intervals>>

\* ------------------------------------------------- Storage Gateway
\* adapter.exists
Exists(fs, dirs, path) == path \in DOMAIN fs \/ path \in dirs

\* adapter.list(folder).files: the files directly in the folder
ListFiles(fs, folder) ==
  {p \in DOMAIN fs : Len(p) = Len(folder) + 1 /\ ParentOf(p) = folder}

\* adapter.rename succeeds when the source exists, the target does not and
\* the target's folder exists.
CanRename(fs, dirs, from, to) ==
  from \in DOMAIN fs /\ to \notin DOMAIN fs /\ ParentOf(to) \in dirs

Rename(fs, from, to) ==
  [p \in (DOMAIN fs \ {from}) \cup {to} |-> IF p = to THEN fs[from] ELSE fs[p]]

\* adapter.write: create or overwrite
Write(fs, path, content) ==
  [p \in DOMAIN fs \cup {path} |-> IF p = path THEN content ELSE fs[p]]

\* A loop over the segments that calls createFolder for every prefix,
\* whether it exists or not.
RECURSIVE CreateEverySegment(_, _, _, _)
CreateEverySegment(fs, dirs, path, k) ==
  IF k > Len(path) THEN <<>>
  ELSE <<SubSeq(path, 1, k)>> \o CreateEverySegment(fs, dirs, path, k + 1)

\* The loop over the segments: exists(current), then createFolder(current)
\* when it answered false.  The createFolder calls, in order.
RECURSIVE CreateSegments(_, _, _, _)
CreateSegments(fs, dirs, path, k) ==
  IF k > Len(path) THEN <<>>
  ELSE LET current == SubSeq(path, 1, k) IN
       IF Exists(fs, dirs, current) THEN CreateSegments(fs, dirs, path, k + 1)
       ELSE <<current>> \o CreateSegments(fs, dirs \cup {current}, path, k + 1)

\* The createFolder calls of ensureFolderExists(folderPath): none when the
\* path is empty or exists.
createFolderCalls(fs, dirs, folderPath) ==
  IF folderPath = <<>> \/ Exists(fs, dirs, folderPath) THEN <<>>
  ELSE CreateSegments(fs, dirs, folderPath, 1)

\* One call of ensureFolderExists as the invocation made it.
EnsureCall(fs, dirs, folderPath) ==
  [path |-> folderPath, calls |-> createFolderCalls(fs, dirs, folderPath)]

\* The folders after ensureFolderExists(folderPath).
ensureFolderExists(fs, dirs, folderPath) ==
  LET calls == createFolderCalls(fs, dirs, folderPath)
  IN dirs \cup {calls[i] : i \in DOMAIN calls}

\* ------------------------------------------------------------- tasks
\* The request callLlm hands to requestUrl: the url, and the headers as
\* (name, value) pairs.
NoRequest == [url |-> <<>>, headers |-> {}, messages |-> <<>>]

\* A prompt template that names the day once.
DefaultTemplate == <<"S", "u", "m", " ">> \o <<"{", "{", "d", "a", "t", "e", "}", "}">>

\* "{{date}}"
DateToken == <<"{", "{", "d", "a", "t", "e", "}", "}">>

\* String.prototype.replaceAll with a string pattern: every occurrence,
\* left to right, without rescanning what was put in.
RECURSIVE replaceAll(_, _, _)
replaceAll(s, pattern, replacement) ==
  IF Len(s) < Len(pattern) THEN s
  ELSE IF SubSeq(s, 1, Len(pattern)) = pattern
  THEN replacement \o replaceAll(SubSeq(s, Len(pattern) + 1, Len(s)), pattern, replacement)
  ELSE <<Head(s)>> \o replaceAll(Tail(s), pattern, replacement)

\* `Daily note for ${dateStamp}:\n\n`
UserPreamble(dateStamp) ==
  <<"D","a","i","l","y"," ","n","o","t","e"," ","f","o","r"," ">> \o dateStamp \o <<":", "\n", "\n">>

\* A prompt builder that interpolates the note into the instruction.
buildMessagesInline(conf, dateStamp, note) ==
  << [role |-> "system",
      content |-> replaceAll(conf.promptTemplate, DateToken, dateStamp) \o <<"\n">> \o note],
     [role |-> "user", content |-> UserPreamble(dateStamp)] >>

buildMessages(conf, dateStamp, note) ==
  << [role |-> "system", content |-> replaceAll(conf.promptTemplate, DateToken, dateStamp)],
     [role |-> "user", content |-> UserPreamble(dateStamp) \o note] >>
ContentType ==
  <<"Content-Type", <<"a", "p", "p", "l", "i", "c", "a", "t", "i", "o", "n", "/", "j", "s", "o", "n">>>>
Bearer(key) == <<"B", "e", "a", "r", "e", "r", " ">> \o key

\* An Authorization header set whatever the key.
SendsKeyAlways(apiKey) == TRUE

\* if (this.settings.apiKey.trim()) headers.Authorization = `Bearer ${...trim()}`
SendsKey(apiKey) == Trim(apiKey) # <<>>
Headers(apiKey) ==
  {ContentType} \cup
    (IF SendsKey(apiKey) THEN {<<"Authorization", Bearer(Trim(apiKey))>>} ELSE {})
Request(conf, messages) ==
  [url |-> conf.llmEndpoint, headers |-> Headers(conf.apiKey), messages |-> messages]

\* An invocation: where it waits (pc), its local variables, and what it has
\* observed and done so far.
IdleTask ==
  [kind |-> "idle", pc |-> "idle", force |-> FALSE,
   today |-> Null, yesterday |-> Null, dateStamp |-> Null,
   outputPath |-> Null, dailyNotePath |-> Null, listing |-> {},
   summaryExisted |-> FALSE, \* the gate's exists() answered true
   noteMissing |-> FALSE,    \* exists(dailyNotePath) answered false
   noteRead |-> FALSE,       \* read(dailyNotePath) returned noteRaw
   noteRaw |-> Null,
   answered |-> FALSE,       \* callLlm returned summary
   summary |-> Null,
   requests |-> 0,           \* requestUrl calls issued
   request |-> NoRequest,    \* the last request handed to requestUrl
   response |-> NoResponse,  \* what requestUrl answered
   wrote |-> FALSE,          \* adapter.write succeeded
   created |-> 0,            \* createFolder calls
   ensured |-> <<>>,         \* the ensureFolderExists calls of the latest step
   lpdSet |-> FALSE,         \* settings.lastProcessedDate assigned
   notices |-> <<>>,         \* new Notice(...), in order
   error |-> "none",           \* the operation whose error ended the run
   escaped |-> FALSE,        \* the error left the callback uncaught
   outcome |-> "none"]

\* The invocation returns (or throws): its locals are gone.
Finish(r, outcome) ==
  [r EXCEPT !.pc = "done", !.outcome = outcome, !.today = Null, !.yesterday = Null,
            !.outputPath = Null, !.dailyNotePath = Null, !.listing = {}]

\* A catch block that logs the error and shows nothing.
CaughtSilently(r, op) == Finish([r EXCEPT !.error = op], "failed")

\* catch (error) { ...; new Notice(`Daily summary failed: ${message}`) }
Caught(r, op) ==
  Finish([r EXCEPT !.error = op, !.notices = Append(@, "failed")], "failed")

\* An error outside every try block rejects the callback's promise.
Thrown(r, op) == Finish([r EXCEPT !.error = op, !.escaped = TRUE], "threw")

\* if (!force) { ... exists(outputPath) ... }
GateChecks(force) == ~force

\* A gate that lets every invocation through.
GateNeverStops(summaryExists) == FALSE

\* if (summaryExists) return
GateStops(summaryExists) == summaryExists

\* try { dailyNotePath = getDailyNotePath(dateStamp); await exists(dailyNotePath)
EnterTry(r, now, sorting) ==
  [r EXCEPT !.pc = "lookup",
            !.dailyNotePath = getDailyNotePath(sorting, r.dateStamp, now)]

\* processDateIfNeeded up to its first await
EnterProcess(r, dateStamp, now, sorting) ==
  LET r1 == [r EXCEPT !.dateStamp = dateStamp,
                      !.outputPath = getSummaryPath(sorting, dateStamp, now)]
  IN IF GateChecks(r.force) THEN [r1 EXCEPT !.pc = "gate"]
     ELSE EnterTry(r1, now, sorting)

\* What follows sortDailyNotesAndSummaries in the same turn: the command's
\* notice, or processDateIfNeeded(yesterday, force).
AfterSort(r, now, sorting) ==
  IF r.kind = "sortCmd"
  THEN Finish([r EXCEPT !.notices = Append(@, "sorted")], "sorted")
  ELSE EnterProcess(r, r.yesterday, now, sorting)

\* A heartbeat that runs the Archivist whatever the setting says.
TickSortsAlways(sorting) == TRUE

\* if (this.settings.sortDailyNotesAndSummaries) in processYesterdayIfNeeded
TickSorts(sorting) == sorting

\* processYesterdayIfNeeded(force) up to its first await
EnterYesterday(kind, force, now, sorting) ==
  LET r == [IdleTask EXCEPT !.kind = kind, !.force = force,
                            !.today = getLocalDateStamp(DateOf(now)),
                            !.yesterday = getLocalDateStamp(YesterdayOf(now))]
  IN IF TickSorts(sorting) THEN [r EXCEPT !.pc = "sortNotes"]
     ELSE EnterProcess(r, r.yesterday, now, sorting)

\* processToday(force) up to its first await
EnterToday(force, now, sorting) ==
  EnterProcess([IdleTask EXCEPT !.kind = "todayCmd", !.force = force],
               getLocalDateStamp(DateOf(now)), now, sorting)

\* The "sort now" command up to its first await
EnterSortCmd(now) ==
  [IdleTask EXCEPT !.kind = "sortCmd", !.pc = "sortNotes",
                   !.today = getLocalDateStamp(DateOf(now)),
                   !.yesterday = getLocalDateStamp(YesterdayOf(now))]

\* A new invocation takes the first free slot.
FreeSlot(t) == tasks[t].pc = "idle" /\ \A u \in Tasks : u < t => tasks[u].pc # "idle"

\* A callback that has finished settles its promise before anything else
\* happens: nothing runs between its last statement and its return.
Settled == \A u \in Tasks : tasks[u].pc # "done"

\* this.settings.checkIntervalMinutes || 60
EveryMinutes(checkIntervalMinutes) ==
  IF checkIntervalMinutes = 0 THEN 60 ELSE checkIntervalMinutes

\* scheduleDailyCheck: setInterval(callback, everyMinutes * 60 * 1000) and
\* registerInterval
scheduleDailyCheck(timers, conf) ==
  Append(timers, EveryMinutes(conf.checkIntervalMinutes) * 60 * 1000)

TypeOK ==
  /\ clock \in Days
  /\ DOMAIN tasks = Tasks
  /\ phase \in {"loading", "running", "failed"}
  /\ settings.sortDailyNotesAndSummaries \in BOOLEAN

\* onload has loaded the settings, registered the commands and called
\* processYesterdayIfNeeded(false), which is at its first await.
Init ==
  /\ clock = 2
  /\ files = << >>
  /\ folders = {dailyNotesFolder}
  /\ settings \in [sortDailyNotesAndSummaries : BOOLEAN,
                   lastProcessedDate : {Null},
                   llmEndpoint : {<<>>, <<"u">>},
                   apiKey : {<<"k">>},
                   promptTemplate : {DefaultTemplate},
                   checkIntervalMinutes : {60}]
  /\ tasks = [t \in Tasks |->
       IF t = 1
       THEN EnterYesterday("startup", FALSE, 2, settings.sortDailyNotesAndSummaries)
       ELSE IdleTask]
  /\ phase = "loading"
  /\ intervals = <<>>

\* -------------------------------------------------------- environment
\* The vault is followed while the plugin is loaded.
Loaded == phase # "failed"

\* Midnight passes.
AdvanceClock ==
  /\ Loaded /\ Settled
  /\ clock < MaxDay
  /\ clock' = clock + 1
  /\ UNCHANGED <<files, folders, settings, tasks, phase, intervals>>

\* The note-taking workflow creates today's note, or yesterday's when it was
\* not written on its day.
CreateNote ==
  \E d \in {getLocalDateStamp(DateOf(clock)), getYesterdayStamp(clock)}, text \in NoteTexts :
    /\ Loaded /\ Settled
    /\ FlatNotePath(d) \notin DOMAIN files
    /\ NestedNotePath(d) \notin DOMAIN files
    /\ files' = Write(files, FlatNotePath(d), text)
    /\ UNCHANGED <<clock, folders, settings, tasks, phase, intervals>>

\* Number.parseInt of what is typed into the check interval field
FormInputs == {-1, 0, 1, 5, 7}

\* The settings tab's toggle: onChange assigns the setting and saves.
ToggleSort ==
  /\ Loaded /\ Settled
  /\ settings' = [settings EXCEPT !.sortDailyNotesAndSummaries = ~@]
  /\ UNCHANGED <<clock, files, folders, tasks, phase, intervals>>

\* The settings tab's check interval field: onChange parses the text,
\* stores Math.max(5, parsed), or 60 when it is not a number, and saves.
\* The timer already registered is left as it is.
SetCheckInterval ==
  \E finite \in BOOLEAN, parsed \in FormInputs :
    /\ Loaded /\ Settled
    /\ settings' = [settings EXCEPT !.checkIntervalMinutes =
                      IF finite THEN (IF parsed < 5 THEN 5 ELSE parsed) ELSE 60]
    /\ UNCHANGED <<clock, files, folders, tasks, phase, intervals>>

\* --------------------------------------------------------- callbacks
\* The host runs a callback.  With overlap it may do so while another
\* callback waits at an await; without, callbacks run one after another.
Spawn(r, overlap) ==
  /\ Settled
  /\ overlap \/ \A u \in Tasks : tasks[u].pc = "idle"
  /\ \E t \in Tasks : FreeSlot(t) /\ tasks' = [tasks EXCEPT ![t] = r]
  /\ UNCHANGED <<clock, files, folders, settings, phase, intervals>>

\* The heartbeat's callback: await this.processYesterdayIfNeeded(false)
Tick(overlap) ==
  /\ phase = "running"
  /\ Spawn(EnterYesterday("tick", FALSE, clock, settings.sortDailyNotesAndSummaries), overlap)

\* "Generate yesterday's digest now"
YesterdayCommand(overlap) ==
  /\ Loaded
  /\ Spawn(EnterYesterday("yesterdayCmd", TRUE, clock, settings.sortDailyNotesAndSummaries), overlap)

\* "Generate today's digest now"
TodayCommand(overlap) ==
  /\ Loaded
  /\ Spawn(EnterToday(TRUE, clock, settings.sortDailyNotesAndSummaries), overlap)

\* "Sort daily notes and summaries into folders now"
SortCommand(overlap) ==
  /\ Loaded
  /\ Spawn(EnterSortCmd(clock), overlap)

\* The callback's promise settles.  onload goes on to scheduleDailyCheck
\* after its first run; when that run threw, onload throws and the host
\* unloads the plugin.
Return(t) ==
  /\ tasks[t].pc = "done"
  /\ tasks' = [tasks EXCEPT ![t] = IdleTask]
  /\ phase' = IF tasks[t].kind # "startup" THEN phase
              ELSE IF tasks[t].escaped THEN "failed" ELSE "running"
  /\ intervals' = IF tasks[t].kind = "startup" /\ ~tasks[t].escaped
                  THEN scheduleDailyCheck(intervals, settings)
                  ELSE intervals
  /\ UNCHANGED <<clock, files, folders, settings>>

\* --------------------------------------------------------- Archivist
\* A note pass that moves every dated note, today's included.
NoteShouldMoveAnyDay(name, todayStamp) == getDailyNoteDateStamp(name) # Null

\* The note pass moves every dated note but today's.
NoteShouldMove(name, todayStamp) ==
  getDailyNoteDateStamp(name) # Null /\ getDailyNoteDateStamp(name) # todayStamp

\* The summary pass moves every dated summary strictly before yesterday.
SummaryShouldMove(name, yesterdayStamp) ==
  /\ getSummaryDateStamp(name) # Null
  /\ isDateStampBefore(getSummaryDateStamp(name), yesterdayStamp)

NoteTarget(filePath) ==
  NestedFolder(dailyNotesFolder, getDailyNoteDateStamp(filePath[Len(filePath)]))
    \o <<filePath[Len(filePath)]>>

SummaryTarget(filePath) ==
  NestedFolder(outputFolder, getSummaryDateStamp(filePath[Len(filePath)]))
    \o <<filePath[Len(filePath)]>>

\* The files of a listing the loop will not skip.
NotesToMove(fs, todayStamp) ==
  {p \in ListFiles(fs, dailyNotesFolder) :
     NoteShouldMove(p[Len(p)], todayStamp) /\ p # NoteTarget(p)}

SummariesToMove(fs, yesterdayStamp) ==
  {p \in ListFiles(fs, outputFolder) :
     SummaryShouldMove(p[Len(p)], yesterdayStamp) /\ p # SummaryTarget(p)}

\* A relocation done as a copy: the source stays behind.
RelocateByCopy(fs, from, to) == Write(fs, to, fs[from])

\* await this.app.vault.adapter.rename(filePath, targetPath)
RelocateFile(fs, from, to) == Rename(fs, from, to)

\* sortSummaries up to its first rename; with nothing to move the pass ends
\* and the caller goes on in the same turn.
EnterSortSummaries(r, fs, dirs, now, sorting) ==
  LET todo == IF Exists(fs, dirs, outputFolder)
              THEN SummariesToMove(fs, r.yesterday) ELSE {}
  IN IF todo = {} THEN AfterSort(r, now, sorting)
     ELSE [r EXCEPT !.pc = "moveSummaries", !.listing = todo]

\* sortDailyNotes: exists(baseFolder), list(baseFolder)
SortNotesList(t) ==
  LET r == tasks[t]
      todo == IF Exists(files, folders, dailyNotesFolder)
              THEN NotesToMove(files, r.today) ELSE {}
  IN /\ Settled /\ r.pc = "sortNotes"
     /\ tasks' = [tasks EXCEPT ![t] =
          IF todo = {} THEN [r EXCEPT !.pc = "sortSummaries"]
          ELSE [r EXCEPT !.pc = "moveNotes", !.listing = todo]]
     /\ UNCHANGED <<clock, files, folders, settings, phase, intervals>>

\* One turn of sortDailyNotes' loop: ensureFolderExists, rename.  A rename
\* that fails throws out of the pass and out of the callback.
MoveNote(t) ==
  LET r == tasks[t] IN
  /\ Settled /\ r.pc = "moveNotes"
  /\ \E f \in r.listing, ok \in BOOLEAN :
       LET to == NoteTarget(f)
           dirs == ensureFolderExists(files, folders, ParentOf(to))
           r1 == [r EXCEPT !.ensured = <<EnsureCall(files, folders, ParentOf(to))>>]
           rest == r.listing \ {f}
       IN /\ folders' = dirs
          /\ IF ok /\ CanRename(files, dirs, f, to)
             THEN /\ files' = RelocateFile(files, f, to)
                  /\ tasks' = [tasks EXCEPT ![t] =
                       [r1 EXCEPT !.listing = rest,
                                  !.pc = IF rest = {} THEN "sortSummaries" ELSE "moveNotes"]]
             ELSE /\ files' = files
                  /\ tasks' = [tasks EXCEPT ![t] = Thrown(r1, "rename")]
  /\ UNCHANGED <<clock, settings, phase, intervals>>

\* sortSummaries: exists(baseFolder), list(baseFolder)
SortSummariesList(t) ==
  LET r == tasks[t] IN
  /\ Settled /\ r.pc = "sortSummaries"
  /\ tasks' = [tasks EXCEPT ![t] =
       EnterSortSummaries(r, files, folders, clock, settings.sortDailyNotesAndSummaries)]
  /\ UNCHANGED <<clock, files, folders, settings, phase, intervals>>

\* One turn of sortSummaries' loop.
MoveSummary(t) ==
  LET r == tasks[t] IN
  /\ Settled /\ r.pc = "moveSummaries"
  /\ \E f \in r.listing, ok \in BOOLEAN :
       LET to == SummaryTarget(f)
           dirs == ensureFolderExists(files, folders, ParentOf(to))
           r1 == [r EXCEPT !.ensured = <<EnsureCall(files, folders, ParentOf(to))>>]
           rest == r.listing \ {f}
       IN /\ folders' = dirs
          /\ IF ok /\ CanRename(files, dirs, f, to)
             THEN /\ files' = RelocateFile(files, f, to)
                  /\ tasks' = [tasks EXCEPT ![t] =
                       IF rest = {}
                       THEN AfterSort(r1, clock, settings.sortDailyNotesAndSummaries)
                       ELSE [r1 EXCEPT !.listing = rest]]
             ELSE /\ files' = files
                  /\ tasks' = [tasks EXCEPT ![t] = Thrown(r1, "rename")]
  /\ UNCHANGED <<clock, settings, phase, intervals>>

\* ------------------------------------------------------ Day Processor
\* The gate: exists(outputPath) answers, outside the try block.
GateResume(t) ==
  LET r == tasks[t] IN
  /\ Settled /\ r.pc = "gate"
  /\ \E ok \in BOOLEAN :
       tasks' = [tasks EXCEPT ![t] =
         IF ~ok THEN Thrown(r, "gate")
         ELSE LET e == Exists(files, folders, r.outputPath)
                  r1 == [r EXCEPT !.summaryExisted = e]
              IN IF GateStops(e) THEN Finish(r1, "gated")
                 ELSE EnterTry(r1, clock, settings.sortDailyNotesAndSummaries)]
  /\ UNCHANGED <<clock, files, folders, settings, phase, intervals>>

\* The "not found" notice shown whether forced or not.
NotFoundNoticeAlways(force) == <<"notFound">>

\* if (force) new Notice(`Daily note not found: ...`)
NotFoundNotice(force) == IF force THEN <<"notFound">> ELSE <<>>

\* if (!exists) { ...; return }
NoteMissing(exists) == ~exists

\* The note text measured as read, without trim().
NoteContentsUntrimmed(raw) == raw

\* (await read(dailyNotePath)).trim()
NoteContents(raw) == Trim(raw)

\* if (!noteContents || noteContents.length < 20)
TooShort(noteContents) == noteContents = <<>> \/ Len(noteContents) < MinNoteLength

\* if (force) new Notice(`Daily note is empty or nearly empty: ...`)
TooShortNotice(force) == IF force THEN <<"tooShort">> ELSE <<>>

\* An endpoint test without trim().
EndpointEmpty(endpoint) == endpoint = <<>>

\* if (!this.settings.llmEndpoint.trim()) throw
EndpointBlank(endpoint) == Trim(endpoint) = <<>>

\* Source lookup and content validation: exists(dailyNotePath) and
\* read(dailyNotePath) answer (fail names the one that throws), then
\* buildMessages and callLlm up to requestUrl.
LookupResume(t) ==
  LET r == tasks[t]
      found == Exists(files, folders, r.dailyNotePath)
      r0 == [r EXCEPT !.noteMissing = ~found]
  IN
  /\ Settled /\ r.pc = "lookup"
  /\ \E fail \in {"none", "exists", "read"} :
       tasks' = [tasks EXCEPT ![t] =
         IF fail = "exists" THEN Caught(r, "exists")
         ELSE IF NoteMissing(found)
         THEN Finish([r0 EXCEPT !.notices = @ \o NotFoundNotice(r.force)], "noNote")
         ELSE IF fail = "read" \/ r.dailyNotePath \notin DOMAIN files
         THEN Caught(r0, "read")
         ELSE LET raw == files[r.dailyNotePath]
                  r1 == [r0 EXCEPT !.noteRead = TRUE, !.noteRaw = raw]
              IN IF TooShort(NoteContents(raw))
                 THEN Finish([r1 EXCEPT !.notices = @ \o TooShortNotice(r.force)], "tooShort")
                 ELSE IF EndpointBlank(settings.llmEndpoint) THEN Caught(r1, "summarize")
                 ELSE [r1 EXCEPT !.pc = "llm", !.requests = @ + 1,
                                  !.request = Request(settings,
                                    buildMessages(settings, r.dateStamp, NoteContents(raw)))]]
  /\ UNCHANGED <<clock, files, folders, settings, phase, intervals>>

\* A response check that looks at the shape only, not at the status.
ResponseFailsOnShape(resp) == resp.rejected \/ ~resp.isString

\* response.status !== 200, typeof content !== "string"
ResponseFails(resp) == resp.rejected \/ resp.status # 200 \/ ~resp.isString

\* return content
LlmReturn(resp) == resp.content

\* if (!summary)
SummaryEmpty(summary) == summary = <<>>

\* How far the persist and record steps get: an ensureFolderExists throws,
\* write throws, saveData throws, or all succeed.
IoOutcomes == {"mkdir", "write", "save", "ok"}

\* requestUrl settles; the empty-result guard; the backlink; then
\* ensureFolderExists(outputFolder), ensureFolderExists(outputDir), write,
\* lastProcessedDate, saveSettings and the notice.
LlmResume(t) ==
  LET r == tasks[t] IN
  /\ Settled /\ r.pc = "llm"
  /\ \E resp \in Responses, io \in IoOutcomes :
       LET r0 == [r EXCEPT !.response = resp, !.ensured = <<>>] IN
       IF ResponseFails(resp)
       THEN /\ tasks' = [tasks EXCEPT ![t] = Caught(r0, "summarize")]
            /\ UNCHANGED <<files, folders, settings>>
       ELSE IF SummaryEmpty(LlmReturn(resp))
       THEN /\ tasks' = [tasks EXCEPT ![t] =
                 Finish([r0 EXCEPT !.answered = TRUE, !.summary = LlmReturn(resp),
                                   !.notices = Append(@, "empty")], "emptySummary")]
            /\ UNCHANGED <<files, folders, settings>>
       ELSE LET dirs == IF io = "mkdir" THEN folders
                        ELSE ensureFolderExists(files,
                               ensureFolderExists(files, folders, outputFolder),
                               ParentOf(r.outputPath))
                base == ensureFolderExists(files, folders, outputFolder)
                r1 == [r0 EXCEPT !.answered = TRUE, !.summary = LlmReturn(resp),
                                 !.created = @ + Cardinality(dirs \ folders),
                                 !.ensured =
                                   IF io = "mkdir" THEN <<>>
                                   ELSE <<EnsureCall(files, folders, outputFolder),
                                          EnsureCall(files, base, ParentOf(r.outputPath))>>]
                r2 == [r1 EXCEPT !.wrote = TRUE, !.lpdSet = TRUE]
            IN /\ folders' = dirs
               /\ IF io \in {"save", "ok"}
                  THEN /\ files' = Write(files, r.outputPath,
                                         FinalContent(LlmReturn(resp), r.dateStamp))
                       /\ settings' = [settings EXCEPT !.lastProcessedDate = r.dateStamp]
                       /\ tasks' = [tasks EXCEPT ![t] =
                            IF io = "ok"
                            THEN Finish([r2 EXCEPT !.notices = Append(@, "saved")], "saved")
                            ELSE Caught(r2, "save")]
                  ELSE /\ tasks' = [tasks EXCEPT ![t] = Caught(r1, io)]
                       /\ UNCHANGED <<files, settings>>
  /\ UNCHANGED <<clock, phase, intervals>>

\* ------------------------------------------------------ specification
\* Callbacks run one after another.
Next ==
  \/ AdvanceClock
  \/ CreateNote
  \/ ToggleSort
  \/ Tick(FALSE)
  \/ YesterdayCommand(FALSE)
  \/ TodayCommand(FALSE)
  \/ SortCommand(FALSE)
  \/ \E t \in Tasks : SortNotesList(t)
  \/ \E t \in Tasks : MoveNote(t)
  \/ \E t \in Tasks : SortSummariesList(t)
  \/ \E t \in Tasks : MoveSummary(t)
  \/ \E t \in Tasks : GateResume(t)
  \/ \E t \in Tasks : LookupResume(t)
  \/ \E t \in Tasks : LlmResume(t)
  \/ \E t \in Tasks : Return(t)

Spec == Init /\ [][Next]_vars

\* Startup and heartbeat only: no command is invoked.
NextTicks ==
  \/ AdvanceClock
  \/ CreateNote
  \/ ToggleSort
  \/ Tick(FALSE)
  \/ \E t \in Tasks : SortNotesList(t)
  \/ \E t \in Tasks : MoveNote(t)
  \/ \E t \in Tasks : SortSummariesList(t)
  \/ \E t \in Tasks : MoveSummary(t)
  \/ \E t \in Tasks : GateResume(t)
  \/ \E t \in Tasks : LookupResume(t)
  \/ \E t \in Tasks : LlmResume(t)
  \/ \E t \in Tasks : Return(t)

SpecTicks == Init /\ [][NextTicks]_vars

\* The Archivist alone, on any vault: each day's note and summary may be
\* absent, flat, nested, or both; the sort command runs, and runs again,
\* with nothing else touching the vault and the clock standing still.
Layouts == {"none", "flat", "nested", "both"}
PlacedAt(layout, flat, nested) ==
  IF layout = "flat" THEN {flat}
  ELSE IF layout = "nested" THEN {nested}
  ELSE IF layout = "both" THEN {flat, nested}
  ELSE {}
VaultPaths(notes, sums) ==
  UNION {PlacedAt(notes[d], FlatNotePath(d), NestedNotePath(d))
           \cup PlacedAt(sums[d], FlatSummaryPath(d), NestedSummaryPath(d)) : d \in Stamps}
VaultText(path) ==
  IF getDailyNoteDateStamp(path[Len(path)]) # Null THEN LongNote
  ELSE FinalContent(<<"o", "k">>, getSummaryDateStamp(path[Len(path)]))
Ancestors(paths) == UNION {{SubSeq(p, 1, k) : k \in 1..(Len(p) - 1)} : p \in paths}

InitArchivist ==
  /\ clock \in Days \ {1}
  /\ \E notes \in [Stamps -> Layouts], sums \in [Stamps -> Layouts] :
       /\ files = [p \in VaultPaths(notes, sums) |-> VaultText(p)]
       /\ folders = {dailyNotesFolder} \cup Ancestors(VaultPaths(notes, sums))
  /\ settings \in [sortDailyNotesAndSummaries : BOOLEAN,
                   lastProcessedDate : {Null},
                   llmEndpoint : {<<"u">>},
                   apiKey : {<<"k">>},
                   promptTemplate : {DefaultTemplate},
                   checkIntervalMinutes : {60}]
  /\ tasks = [t \in Tasks |-> IF t = 1 THEN EnterSortCmd(clock) ELSE IdleTask]
  /\ phase = "running"
  /\ intervals = scheduleDailyCheck(<<>>, settings)

NextArchivist ==
  \/ SortCommand(FALSE)
  \/ \E t \in Tasks : SortNotesList(t)
  \/ \E t \in Tasks : MoveNote(t)
  \/ \E t \in Tasks : SortSummariesList(t)
  \/ \E t \in Tasks : MoveSummary(t)
  \/ \E t \in Tasks : Return(t)

SpecArchivist == InitArchivist /\ [][NextArchivist]_vars

\* The Summarization Client alone: a forced run for yesterday, whose note is
\* in place, reaches callLlm under every endpoint and API key the loaded
\* settings may hold, and may be repeated.
Endpoints == {<<>>, <<" ">>, <<"\n", " ">>, <<"u">>, <<" ", "u">>}
ApiKeys == {<<>>, <<" ">>, <<"k">>, <<" ", "k", " ">>}

InitLlm ==
  /\ clock = 2
  /\ files = [p \in {FlatNotePath(getYesterdayStamp(2))} |-> LongNote]
  /\ folders = {dailyNotesFolder}
  /\ settings \in [sortDailyNotesAndSummaries : {FALSE},
                   lastProcessedDate : {Null},
                   llmEndpoint : Endpoints,
                   apiKey : ApiKeys,
                   promptTemplate : {DefaultTemplate},
                   checkIntervalMinutes : {60}]
  /\ tasks = [t \in Tasks |->
       IF t = 1 THEN EnterYesterday("yesterdayCmd", TRUE, 2, FALSE) ELSE IdleTask]
  /\ phase = "running"
  /\ intervals = scheduleDailyCheck(<<>>, settings)

NextLlm ==
  \/ YesterdayCommand(FALSE)
  \/ \E t \in Tasks : LookupResume(t)
  \/ \E t \in Tasks : LlmResume(t)
  \/ \E t \in Tasks : Return(t)

SpecLlm == InitLlm /\ [][NextLlm]_vars

\* The prompt builder under every template and note body: yesterday's note
\* is summarised on command, the note is edited between commands.
Templates ==
  { <<"S", "u", "m">>,
    DefaultTemplate,
    DateToken \o <<" ">> \o DateToken,
    <<"{", "{", "d", "a", "t", "e", "}">>,
    <<"{">> \o DateToken \o <<"}">> }
TokenNote == DateToken \o Rep("y", MinNoteLength)
OrderNote == <<"s", "y", "s", "t", "e", "m", ":">> \o Rep("z", MinNoteLength)
NoteBodies == {LongNote, TokenNote, OrderNote}

\* The note of yesterday is rewritten in the editor.
EditNote ==
  \E text \in NoteBodies :
    LET path == FlatNotePath(getYesterdayStamp(clock)) IN
    /\ Loaded /\ Settled
    /\ path \in DOMAIN files /\ files[path] # text
    /\ files' = Write(files, path, text)
    /\ UNCHANGED <<clock, folders, settings, tasks, phase, intervals>>

InitPrompt ==
  /\ clock = 2
  /\ files \in [{FlatNotePath(getYesterdayStamp(2))} -> NoteBodies]
  /\ folders = {dailyNotesFolder}
  /\ settings \in [sortDailyNotesAndSummaries : {FALSE},
                   lastProcessedDate : {Null},
                   llmEndpoint : {<<"u">>},
                   apiKey : {<<"k">>},
                   promptTemplate : Templates,
                   checkIntervalMinutes : {60}]
  /\ tasks = [t \in Tasks |->
       IF t = 1 THEN EnterYesterday("yesterdayCmd", TRUE, 2, FALSE) ELSE IdleTask]
  /\ phase = "running"
  /\ intervals = scheduleDailyCheck(<<>>, settings)

NextPrompt ==
  \/ YesterdayCommand(TRUE)
  \/ EditNote
  \/ \E t \in Tasks : LookupResume(t)
  \/ \E t \in Tasks : LlmResume(t)
  \/ \E t \in Tasks : Return(t)

SpecPrompt == InitPrompt /\ [][NextPrompt]_vars

\* The heartbeat under every stored interval: onload runs with the data
\* that loadData returned, the settings form is used while it is loaded.
LoadedIntervals == {-1, 0, 1, 4, 5, 60}

InitHeartbeat ==
  /\ clock = 2
  /\ files = << >>
  /\ folders = {dailyNotesFolder}
  /\ settings \in [sortDailyNotesAndSummaries : {FALSE},
                   lastProcessedDate : {Null},
                   llmEndpoint : {<<"u">>},
                   apiKey : {<<"k">>},
                   promptTemplate : {DefaultTemplate},
                   checkIntervalMinutes : LoadedIntervals]
  /\ tasks = [t \in Tasks |->
       IF t = 1 THEN EnterYesterday("startup", FALSE, 2, FALSE) ELSE IdleTask]
  /\ phase = "loading"
  /\ intervals = <<>>

NextHeartbeat ==
  \/ CreateNote
  \/ SetCheckInterval
  \/ Tick(FALSE)
  \/ \E t \in Tasks : GateResume(t)
  \/ \E t \in Tasks : LookupResume(t)
  \/ \E t \in Tasks : LlmResume(t)
  \/ \E t \in Tasks : Return(t)

SpecHeartbeat == InitHeartbeat /\ [][NextHeartbeat]_vars

\* The host's event loop: a heartbeat tick or a command starts while
\* another invocation waits at an await.  Yesterday's note is there.
InitOverlap ==
  /\ clock = 2
  /\ files = [p \in {FlatNotePath(getYesterdayStamp(2))} |-> LongNote]
  /\ folders = {dailyNotesFolder}
  /\ settings \in [sortDailyNotesAndSummaries : {FALSE},
                   lastProcessedDate : {Null},
                   llmEndpoint : {<<"u">>},
                   apiKey : {<<"k">>},
                   promptTemplate : {DefaultTemplate},
                   checkIntervalMinutes : {60}]
  /\ tasks = [t \in Tasks |-> IdleTask]
  /\ phase = "running"
  /\ intervals = scheduleDailyCheck(<<>>, settings)

NextOverlap ==
  \/ Tick(TRUE)
  \/ YesterdayCommand(TRUE)
  \/ \E t \in Tasks : GateResume(t)
  \/ \E t \in Tasks : LookupResume(t)
  \/ \E t \in Tasks : LlmResume(t)
  \/ \E t \in Tasks : Return(t)

SpecOverlap == InitOverlap /\ [][NextOverlap]_vars

\* One day of startup and heartbeat with yesterday's note in place.  The
\* timer fires while it is registered and no callback runs, the host
\* resumes every await, a storage operation that is tried again and again
\* succeeds at some time and so does the backend.
InitLive ==
  /\ clock = 2
  /\ files = [p \in {FlatNotePath(getYesterdayStamp(2))} |-> LongNote]
  /\ folders = {dailyNotesFolder}
  /\ settings \in [sortDailyNotesAndSummaries : BOOLEAN,
                   lastProcessedDate : {Null},
                   llmEndpoint : {<<"u">>},
                   apiKey : {<<"k">>},
                   promptTemplate : {DefaultTemplate},
                   checkIntervalMinutes : {60}]
  /\ tasks = [t \in Tasks |->
       IF t = 1
       THEN EnterYesterday("startup", FALSE, 2, settings.sortDailyNotesAndSummaries)
       ELSE IdleTask]
  /\ phase = "loading"
  /\ intervals = <<>>

NextLive ==
  \/ Tick(FALSE)
  \/ \E t \in Tasks : SortNotesList(t)
  \/ \E t \in Tasks : MoveNote(t)
  \/ \E t \in Tasks : SortSummariesList(t)
  \/ \E t \in Tasks : GateResume(t)
  \/ \E t \in Tasks : LookupResume(t)
  \/ \E t \in Tasks : LlmResume(t)
  \/ \E t \in Tasks : Return(t)

FairLive ==
  /\ WF_vars(Tick(FALSE))
  /\ \A t \in Tasks :
       /\ WF_vars(SortNotesList(t))
       /\ WF_vars(MoveNote(t))
       /\ SF_vars(MoveNote(t) /\ ~tasks'[t].escaped)
       /\ WF_vars(SortSummariesList(t))
       /\ WF_vars(GateResume(t))
       /\ SF_vars(GateResume(t) /\ ~tasks'[t].escaped)
       /\ WF_vars(LookupResume(t))
       /\ SF_vars(LookupResume(t) /\ tasks'[t].error = "none")
       /\ WF_vars(LlmResume(t))
       /\ SF_vars(LlmResume(t) /\ tasks'[t].outcome = "saved")
       /\ WF_vars(Return(t))

SpecLive == InitLive /\ [][NextLive]_vars /\ FairLive

\* The Archivist in folders that hold other files beside the dated ones:
\* names with something before or after the pattern, and the other
\* folder's kind of name.
StrayNoteNames ==
  LET d == getYesterdayStamp(2) IN
  { <<"a">> \o NoteSuffix,
    <<"x">> \o NoteName(d),
    NoteName(d) \o <<"x">>,
    SummaryName(d) }
StraySummaryNames ==
  LET d == getYesterdayStamp(2) IN
  { <<"a">> \o NoteSuffix,
    <<"x">> \o SummaryName(d),
    SummaryName(d) \o <<"x">>,
    NoteName(d) }

InitStray ==
  /\ clock = 3
  /\ folders = {dailyNotesFolder, outputFolder}
  /\ \E dated \in SUBSET {FlatNotePath(getYesterdayStamp(2)),
                          FlatNotePath(getLocalDateStamp(DateOf(3))),
                          FlatSummaryPath(getYesterdayStamp(2))},
        strayNotes \in SUBSET StrayNoteNames,
        straySummaries \in SUBSET StraySummaryNames :
       files = [p \in dated \cup {dailyNotesFolder \o <<n>> : n \in strayNotes}
                            \cup {outputFolder \o <<n>> : n \in straySummaries} |->
                  IF p \in dated THEN VaultText(p) ELSE LongNote]
  /\ settings \in [sortDailyNotesAndSummaries : {FALSE},
                   lastProcessedDate : {Null},
                   llmEndpoint : {<<"u">>},
                   apiKey : {<<"k">>},
                   promptTemplate : {DefaultTemplate},
                   checkIntervalMinutes : {60}]
  /\ tasks = [t \in Tasks |-> IF t = 1 THEN EnterSortCmd(3) ELSE IdleTask]
  /\ phase = "running"
  /\ intervals = scheduleDailyCheck(<<>>, settings)

NextStray ==
  \/ SortCommand(FALSE)
  \/ \E t \in Tasks : SortNotesList(t)
  \/ \E t \in Tasks : MoveNote(t)
  \/ \E t \in Tasks : SortSummariesList(t)
  \/ \E t \in Tasks : MoveSummary(t)
  \/ \E t \in Tasks : Return(t)

SpecStray == InitStray /\ [][NextStray]_vars

\* Notes written ahead of their day: with sorting on, the notes of today
\* and of tomorrow lie flat in the notes folder; midnight passes, the
\* heartbeat ticks and the commands are used.
InitAhead ==
  /\ clock = 2
  /\ \E ahead \in SUBSET {FlatNotePath(getLocalDateStamp(DateOf(2))),
                          FlatNotePath(getLocalDateStamp(DateOf(3)))} :
       files = [p \in ahead |-> LongNote]
  /\ folders = {dailyNotesFolder}
  /\ settings \in [sortDailyNotesAndSummaries : {TRUE},
                   lastProcessedDate : {Null},
                   llmEndpoint : {<<"u">>},
                   apiKey : {<<"k">>},
                   promptTemplate : {DefaultTemplate},
                   checkIntervalMinutes : {60}]
  /\ tasks = [t \in Tasks |-> IdleTask]
  /\ phase = "running"
  /\ intervals = scheduleDailyCheck(<<>>, settings)

NextAhead ==
  \/ AdvanceClock
  \/ Tick(FALSE)
  \/ TodayCommand(FALSE)
  \/ SortCommand(FALSE)
  \/ \E t \in Tasks : SortNotesList(t)
  \/ \E t \in Tasks : MoveNote(t)
  \/ \E t \in Tasks : SortSummariesList(t)
  \/ \E t \in Tasks : GateResume(t)
  \/ \E t \in Tasks : LookupResume(t)
  \/ \E t \in Tasks : LlmResume(t)
  \/ \E t \in Tasks : Return(t)

SpecAhead == InitAhead /\ [][NextAhead]_vars

\* ensureFolderExists under every state of the folders it is asked for: on
\* the first day of 2026 the notes and summaries of December lie flat, and
\* of each base folder and its year and month folders any chain exists.
Chains(path) == {{SubSeq(path, 1, j) : j \in 1..k} : k \in 0..Len(path)}
FlatIn(dirs, paths) == {p \in paths : ParentOf(p) \in dirs}

InitFolders ==
  /\ clock = 3
  /\ \E noteDirs \in Chains(ParentOf(NestedNotePath(getYesterdayStamp(3)))),
        sumDirs \in Chains(ParentOf(NestedSummaryPath(getYesterdayStamp(3)))) :
       /\ folders = noteDirs \cup sumDirs
       /\ \E present \in SUBSET FlatIn(folders,
              {FlatNotePath(getYesterdayStamp(2)), FlatNotePath(getYesterdayStamp(3)),
               FlatSummaryPath(getYesterdayStamp(2))}) :
            files = [p \in present |-> VaultText(p)]
  /\ settings \in [sortDailyNotesAndSummaries : BOOLEAN,
                   lastProcessedDate : {Null},
                   llmEndpoint : {<<"u">>},
                   apiKey : {<<"k">>},
                   promptTemplate : {DefaultTemplate},
                   checkIntervalMinutes : {60}]
  /\ tasks = [t \in Tasks |->
       IF t = 1
       THEN EnterYesterday("yesterdayCmd", TRUE, 3, settings.sortDailyNotesAndSummaries)
       ELSE IdleTask]
  /\ phase = "running"
  /\ intervals = scheduleDailyCheck(<<>>, settings)

NextFolders ==
  \/ SortCommand(FALSE)
  \/ \E t \in Tasks : SortNotesList(t)
  \/ \E t \in Tasks : MoveNote(t)
  \/ \E t \in Tasks : SortSummariesList(t)
  \/ \E t \in Tasks : MoveSummary(t)
  \/ \E t \in Tasks : LookupResume(t)
  \/ \E t \in Tasks : LlmResume(t)
  \/ \E t \in Tasks : Return(t)

SpecFolders == InitFolders /\ [][NextFolders]_vars

\* ------------------------------------------------------------ claims
\* What an invocation has done that the vault, the backend or the user
\* can see.
NoCall(r) == r.requests = 0
NoWrite(r) == ~r.wrote
Running == {t \in Tasks : tasks[t].pc # "idle"}
Done == {t \in Tasks : tasks[t].pc = "done"}

\* C1 - Idempotency gate: an invocation with force=false whose gate finds a
\* file at the summary path stops there: it issues no network call, writes
\* nothing, creates no folder, shows no notice and does not assign
\* lastProcessedDate.
C1_IdempotencyGate ==
  \A t \in Running :
    (~tasks[t].force /\ tasks[t].summaryExisted) =>
      /\ tasks[t].pc = "done" /\ tasks[t].outcome = "gated"
      /\ NoCall(tasks[t]) /\ NoWrite(tasks[t])
      /\ tasks[t].created = 0
      /\ tasks[t].notices = <<>>
      /\ ~tasks[t].lpdSet

\* An invocation with force=false was stopped by an existing summary.
C1_Witness ==
  \E t \in Done : ~tasks[t].force /\ tasks[t].summaryExisted /\ tasks[t].outcome = "gated"

\* C8 - Missing note: an invocation whose lookup finds no file at the daily
\* note path stops there with no network call, no write and no assignment
\* of lastProcessedDate; it shows exactly the "not found" notice when
\* forced and no notice otherwise.
C8_MissingNote ==
  \A t \in Running :
    tasks[t].noteMissing =>
      /\ tasks[t].pc = "done" /\ tasks[t].outcome = "noNote"
      /\ NoCall(tasks[t]) /\ NoWrite(tasks[t])
      /\ ~tasks[t].lpdSet
      /\ tasks[t].notices = IF tasks[t].force THEN <<"notFound">> ELSE <<>>

\* An unforced heartbeat invocation passed the gate and found no note at
\* the daily note path.
C8_Witness ==
  \E t \in Done : tasks[t].noteMissing /\ ~tasks[t].force /\ tasks[t].kind = "tick"

\* C9 - Content validation: a note whose trimmed text is shorter than 20
\* characters (empty included) leads to no network call and no write, with
\* the "too short" notice when forced and no notice otherwise; and a
\* network call is only made after reading a note of at least 20 trimmed
\* characters.
C9_ContentValidation ==
  \A t \in Running :
    /\ (tasks[t].noteRead /\ Len(Trim(tasks[t].noteRaw)) < MinNoteLength) =>
         /\ tasks[t].pc = "done" /\ tasks[t].outcome = "tooShort"
         /\ NoCall(tasks[t]) /\ NoWrite(tasks[t])
         /\ tasks[t].notices = IF tasks[t].force THEN <<"tooShort">> ELSE <<>>
    /\ ~NoCall(tasks[t]) =>
         tasks[t].noteRead /\ Len(Trim(tasks[t].noteRaw)) >= MinNoteLength

\* A forced invocation read a note that is long enough only when its
\* surrounding white space is counted, and stopped.
C9_Witness ==
  \E t \in Done :
    /\ tasks[t].noteRead /\ tasks[t].force
    /\ Len(tasks[t].noteRaw) >= MinNoteLength
    /\ Len(Trim(tasks[t].noteRaw)) < MinNoteLength

\* The summary artifacts a day has in the vault.
SummaryArtifacts(d) == {p \in {FlatSummaryPath(d), NestedSummaryPath(d)} : p \in DOMAIN files}

\* C2 - At most one summary artifact per day: in every reachable state the
\* flat summary file and the nested summary file of a day never both
\* exist.
C2_OneArtifactPerDay == \A d \in Stamps : Cardinality(SummaryArtifacts(d)) <= 1

\* The step issues a network call, or writes a summary, in invocation t.
CallsBackend(t) == tasks'[t].requests > tasks[t].requests
WritesSummary(t) == tasks'[t].wrote /\ ~tasks[t].wrote

\* C3 - At-most-once production over startup runs and heartbeat ticks: a
\* step that calls the backend or writes the summary of a day is only taken
\* while the day has no summary artifact, so a day's summary is written at
\* most once and no call follows a successful write.  (Summary files are
\* only ever created by a successful write and never deleted.)
C3_AtMostOnceProduction ==
  [][\A t \in Tasks :
       (CallsBackend(t) \/ WritesSummary(t)) => SummaryArtifacts(tasks[t].dateStamp) = {}]_vars

\* The note files a day has in the vault.
NoteArtifacts(d) == {p \in {FlatNotePath(d), NestedNotePath(d)} : p \in DOMAIN files}

\* The passes of the Archivist, and what a step of a pass does to the files
\* of a day: moves one to a new path, or lists the folder and leaves one
\* where it is.
SortPcs == {"sortNotes", "moveNotes", "sortSummaries", "moveSummaries"}
ArchivistStep(t) == tasks[t].pc \in SortPcs /\ tasks'[t] # tasks[t]
MovedTo(p) == p \in DOMAIN files' /\ p \notin DOMAIN files
NoteLeftAt(t, p) ==
  /\ tasks[t].pc = "sortNotes"
  /\ p \in ListFiles(files, dailyNotesFolder) \ NotesToMove(files, tasks[t].today)
SummaryLeftAt(t, p) ==
  /\ tasks[t].pc = "sortSummaries"
  /\ p \in ListFiles(files, outputFolder) \ SummariesToMove(files, tasks[t].yesterday)

\* C4 - Path Resolver and Archivist agree: every note file an Archivist
\* pass moves or leaves in place is then at getDailyNotePath(day), and
\* every summary file at getSummaryPath(day), whichever value the sorting
\* setting has when the path is looked up.
C4_ResolverAgreesWithArchivist ==
  [][\A t \in Tasks :
       ArchivistStep(t) =>
         \A sorting \in BOOLEAN, d \in Stamps :
           /\ \A p \in {FlatNotePath(d), NestedNotePath(d)} :
                (MovedTo(p) \/ NoteLeftAt(t, p)) => p = getDailyNotePath(sorting, d, clock')
           /\ \A p \in {FlatSummaryPath(d), NestedSummaryPath(d)} :
                (MovedTo(p) \/ SummaryLeftAt(t, p)) => p = getSummaryPath(sorting, d, clock')]_vars

\* The (filename, content) pairs of the vault's files, and how many files
\* carry a pair.
NameOf(p) == p[Len(p)]
Pairs(fs) == {<<NameOf(p), fs[p]>> : p \in DOMAIN fs}
Copies(fs, pair) == Cardinality({p \in DOMAIN fs : <<NameOf(p), fs[p]>> = pair})

\* C5 - The Archivist never loses or duplicates a file: every step of an
\* Archivist pass, a failing rename included, leaves the multiset of
\* (filename, content) pairs unchanged, and when it changes the vault it
\* does so by one rename of an existing file to a different, free path.
C5_ArchivistKeepsFiles ==
  [][\A t \in Tasks :
       ArchivistStep(t) =>
         /\ \A pair \in Pairs(files) \cup Pairs(files') :
              Copies(files', pair) = Copies(files, pair)
         /\ \/ files' = files
            \/ \E from \in DOMAIN files, to \in DOMAIN files' :
                 /\ from # to /\ to \notin DOMAIN files
                 /\ files' = Rename(files, from, to)]_vars

\* An Archivist run ended on a rename that failed while one note lies under
\* its year and month and another still waits in the notes root.
C5_Witness ==
  \E t \in Done :
    /\ tasks[t].error = "rename"
    /\ \E d \in Stamps : NestedNotePath(d) \in DOMAIN files
    /\ \E d \in Stamps : FlatNotePath(d) \in NotesToMove(files, getLocalDateStamp(DateOf(clock)))

\* The step in which invocation t's summarize step fails (callLlm throws).
SummarizeFails(t) == tasks[t].error = "none" /\ tasks'[t].error = "summarize"

\* What the failed invocation shows and leaves behind.
FailsQuietly(t) ==
  /\ tasks'[t].pc = "done" /\ ~tasks'[t].escaped
  /\ tasks'[t].notices = <<"failed">>
  /\ NoWrite(tasks'[t]) /\ ~tasks'[t].lpdSet
  /\ settings'.lastProcessedDate = settings.lastProcessedDate

\* The gate lets an invocation for day d through in the state the step
\* leaves.
GateLetsThrough(force, d) ==
  ~(GateChecks(force) /\
    GateStops(Exists(files', folders',
                     getSummaryPath(settings'.sortDailyNotesAndSummaries, d, clock'))))

\* C6 as claimed - a failing summarize step gives exactly one failure
\* notice, no write, lastProcessedDate unchanged and a normal return, and
\* the next invocation for the day, forced or not, passes the gate.
C6_RetryAlwaysPassesGate ==
  [][\A t \in Tasks :
       SummarizeFails(t) =>
         /\ FailsQuietly(t)
         /\ \A force \in BOOLEAN : GateLetsThrough(force, tasks[t].dateStamp)]_vars

\* C6 as amended - a failing summarize step gives exactly one failure
\* notice, no write, lastProcessedDate unchanged and a normal return, and
\* it leaves files, folders and settings as they were; so the next
\* invocation for the day passes the gate when it is forced, and when it is
\* not forced provided no summary artifact was at the day's summary path
\* before the failure.
C6_FailureLeavesRetryOpen ==
  [][\A t \in Tasks :
       SummarizeFails(t) =>
         /\ FailsQuietly(t)
         /\ files' = files /\ folders' = folders /\ settings' = settings
         /\ \A force \in BOOLEAN :
              (force \/ ~Exists(files, folders,
                                getSummaryPath(settings.sortDailyNotesAndSummaries,
                                               tasks[t].dateStamp, clock)))
                => GateLetsThrough(force, tasks[t].dateStamp)]_vars

\* A forced invocation sent its request, the backend failed, and the day's
\* earlier summary artifact is still in place: an unforced retry stops at
\* the gate.
C6_Witness ==
  \E t \in Done :
    /\ tasks[t].error = "summarize" /\ tasks[t].force /\ ~NoCall(tasks[t])
    /\ SummaryArtifacts(tasks[t].dateStamp) # {}

\* The operations of a Day Processor invocation that can throw.
DayProcessorOps == {"gate", "exists", "read", "summarize", "mkdir", "write", "save"}

\* C7 - No error of a storage, settings or network operation of a Day
\* Processor invocation, from the gate's existence check to the record
\* step, leaves processDateIfNeeded: each ends the invocation normally with
\* exactly one failure notice.
C7_NoErrorEscapes ==
  \A t \in Running :
    tasks[t].error \in DayProcessorOps =>
      /\ tasks[t].pc = "done" /\ ~tasks[t].escaped
      /\ tasks[t].notices = <<"failed">>

\* The summary text of an artifact: what precedes the backlink.
HasSummaryText(content, d) ==
  LET tail == Backlink(d) \o <<"\n">>
      n == Len(content) - Len(tail)
  IN /\ n > 0
     /\ SubSeq(content, n + 1, Len(content)) = tail
     /\ Trim(SubSeq(content, 1, n)) # <<>>

\* C10 - Empty-result guard: an invocation whose backend call returned an
\* empty summary shows the notice, writes nothing and does not assign
\* lastProcessedDate; and every summary artifact in the vault contains
\* non-empty summary text.
C10_EmptyResultGuard ==
  /\ \A t \in Running :
       (tasks[t].answered /\ tasks[t].summary = <<>>) =>
         /\ tasks[t].notices = <<"empty">>
         /\ NoWrite(tasks[t]) /\ ~tasks[t].lpdSet
  /\ \A d \in Stamps : \A p \in SummaryArtifacts(d) : HasSummaryText(files[p], d)

\* C11 - Written content format: for a non-empty summary s returned by the
\* backend, the content written to the summary path is trim(s), then the
\* backlink "\n\n---\n\n[Original note](<day>)", then one newline.
C11_WrittenContentFormat ==
  [][\A t \in Tasks :
       (WritesSummary(t) /\ tasks'[t].summary # <<>>) =>
         files'[tasks[t].outputPath] =
           Trim(tasks'[t].summary) \o Backlink(tasks[t].dateStamp) \o <<"\n">>]_vars

\* A run of the Archivist for these day keys would issue no rename, and so
\* create no folder: neither pass finds a file it does not skip.
NothingToSort(fs, todayStamp, yesterdayStamp) ==
  NotesToMove(fs, todayStamp) = {} /\ SummariesToMove(fs, yesterdayStamp) = {}

\* Invocation t's Archivist run ends in this step, normally or by throwing.
ArchivistRunEnds(t) == tasks[t].pc \in SortPcs /\ tasks'[t].pc \notin SortPcs
ArchivistRunCompletes(t) == ArchivistRunEnds(t) /\ ~tasks'[t].escaped

\* A run that starts with nothing to sort changes nothing.
IdleRunChangesNothing(t) ==
  (ArchivistStep(t) /\ NothingToSort(files, tasks[t].today, tasks[t].yesterday)) =>
    /\ files' = files /\ folders' = folders
    /\ tasks'[t].error = "none"

C13_TodaysNoteStays ==
  [][\A t \in Tasks :
       ArchivistStep(t) =>
         LET p == FlatNotePath(tasks[t].today) IN
         /\ p \notin tasks'[t].listing
         /\ p \in DOMAIN files => (p \in DOMAIN files' /\ files'[p] = files[p])]_vars

\* An Archivist run has ended normally, it moved an older note under its
\* year and month, and today's note is still flat in the notes folder.
C13_Witness ==
  \E t \in Done :
    /\ tasks[t].outcome = "sorted"
    /\ FlatNotePath(getLocalDateStamp(DateOf(clock))) \in DOMAIN files
    /\ NestedNotePath(getYesterdayStamp(clock)) \in DOMAIN files

\* The flat summaries dated strictly before a day.
FlatSummariesBefore(fs, stamp) ==
  {FlatSummaryPath(d) : d \in {e \in Stamps : StringLess(e, stamp) /\ FlatSummaryPath(e) \in DOMAIN fs}}

AllSpace(text) == \A i \in 1..Len(text) : IsSpace(text[i])

\* Invocation t has called callLlm: it read a note long enough to summarize.
CalledLlm(r) == r.noteRead /\ Len(Trim(r.noteRaw)) >= MinNoteLength

\* C15 - callLlm with an endpoint that is empty or only white space fails
\* with an error and never issues a network request.
C15_BlankEndpointFails ==
  \A t \in Running :
    (AllSpace(settings.llmEndpoint) /\ CalledLlm(tasks[t])) =>
      /\ NoCall(tasks[t])
      /\ tasks[t].request = NoRequest
      /\ tasks[t].pc = "done" /\ tasks[t].error = "summarize"
      /\ ~tasks[t].answered

\* callLlm was called with an endpoint of white space and threw.
C15_Witness ==
  \E t \in Done :
    /\ settings.llmEndpoint # <<>> /\ AllSpace(settings.llmEndpoint)
    /\ CalledLlm(tasks[t]) /\ tasks[t].error = "summarize"

\* The Authorization headers of a request.
Authorizations(request) == {h \in request.headers : h[1] = "Authorization"}

\* C16 - The request callLlm issues carries the header Authorization:
\* Bearer <key>, with the key trimmed, if and only if the configured API
\* key is non-blank; with a blank key it has no Authorization header.
C16_AuthorizationHeader ==
  \A t \in Running :
    ~NoCall(tasks[t]) =>
      Authorizations(tasks[t].request) =
        IF AllSpace(settings.apiKey) THEN {}
        ELSE {<<"Authorization", Bearer(Trim(settings.apiKey))>>}

\* A request went out under a key padded with white space and carries the
\* trimmed key.
C16_Witness ==
  \E t \in Running :
    /\ ~NoCall(tasks[t])
    /\ settings.apiKey = <<" ", "k", " ">>
    /\ <<"Authorization", Bearer(<<"k">>)>> \in tasks[t].request.headers

\* requestUrl has answered invocation t's request.
Responded(r) == r.response # NoResponse

\* C17 - callLlm returns a value if and only if the response has status 200
\* and a string at choices[0].message.content, and then returns that string
\* unchanged; on any other status or shape, or a rejected request, it fails
\* with an error; and a call issues exactly one request.
C17_ReturnsOn200String ==
  \A t \in Running :
    LET r == tasks[t] IN
    /\ r.requests <= 1
    /\ Responded(r) => r.requests = 1
    /\ r.answered <=>
         (Responded(r) /\ ~r.response.rejected /\ r.response.status = 200 /\ r.response.isString)
    /\ r.answered => r.summary = r.response.content
    /\ (Responded(r) /\ ~r.answered) => (r.pc = "done" /\ r.error = "summarize")

\* callLlm has returned a string that has white space around it, as it
\* came.
C17_Witness ==
  \E t \in Done :
    /\ tasks[t].answered /\ tasks[t].requests = 1
    /\ tasks[t].summary = <<" ", "o", "k", "\n">>

\* pattern occurs somewhere in s.
Occurs(s, pattern) ==
  \E i \in 1..(Len(s) - Len(pattern) + 1) : SubSeq(s, i, i + Len(pattern) - 1) = pattern

\* The invocations that have sent a request.
Callers == {t \in Running : ~NoCall(tasks[t])}

\* C18 - buildMessages returns exactly two messages, system then user; the
\* system message is the template with every {{date}} replaced by the day
\* key and is the same for any two note bodies; the note body appears only
\* in the user message, after the preamble "Daily note for <day>:".
C18_PromptIsolation ==
  /\ \A t \in Callers :
       LET m == tasks[t].request.messages
           day == tasks[t].dateStamp
       IN /\ Len(m) = 2
          /\ m[1].role = "system" /\ m[2].role = "user"
          /\ ~Occurs(m[1].content, <<"{", "{", "d", "a", "t", "e", "}", "}">>)
          /\ replaceAll(m[1].content, day, <<"{", "{", "d", "a", "t", "e", "}", "}">>)
               = settings.promptTemplate
          /\ m[2].content =
               <<"D","a","i","l","y"," ","n","o","t","e"," ","f","o","r"," ">> \o day
                 \o <<":", "\n", "\n">> \o Trim(tasks[t].noteRaw)
  /\ \A t, u \in Callers :
       tasks[t].dateStamp = tasks[u].dateStamp =>
         tasks[t].request.messages[1] = tasks[u].request.messages[1]

\* Two requests for the same day were built from different note bodies, one
\* of them holding {{date}}, under a template that names the day twice.
C18_Witness ==
  \E t, u \in Callers :
    /\ tasks[t].dateStamp = tasks[u].dateStamp
    /\ tasks[t].noteRaw # tasks[u].noteRaw
    /\ Occurs(tasks[t].noteRaw, <<"{", "{", "d", "a", "t", "e", "}", "}">>)
    /\ settings.promptTemplate =
         <<"{", "{", "d", "a", "t", "e", "}", "}", " ", "{", "{", "d", "a", "t", "e", "}", "}">>

\* The prefixes of path that neither a folder nor a file occupies.
MissingPrefixes(fs, dirs, path) ==
  {q \in {SubSeq(path, 1, k) : k \in 1..Len(path)} : q \notin dirs /\ q \notin DOMAIN fs}

\* The calls of one ensureFolderExists are right for the vault it met: none
\* when the path exists, else the missing prefixes, each once, the shorter
\* first.
CallsRight(fs, dirs, e) ==
  /\ (e.path \in dirs \/ e.path \in DOMAIN fs) => e.calls = <<>>
  /\ {e.calls[i] : i \in DOMAIN e.calls} = MissingPrefixes(fs, dirs, e.path)
  /\ \A i, j \in DOMAIN e.calls : i < j => Len(e.calls[i]) < Len(e.calls[j])

RECURSIVE AllCallsRight(_, _, _)
AllCallsRight(fs, dirs, es) ==
  \/ es = <<>>
  \/ /\ CallsRight(fs, dirs, Head(es))
     /\ AllCallsRight(fs, dirs \cup {Head(es).calls[i] : i \in DOMAIN Head(es).calls},
                      Tail(es))

\* Invocation t takes a step that calls ensureFolderExists.
EnsureStep(t) ==
  /\ tasks[t].pc \in {"moveNotes", "moveSummaries", "llm"}
  /\ tasks'[t] # tasks[t]

\* C19 - ensureFolderExists calls createFolder zero times when the full
\* path exists; otherwise it visits the prefixes ancestors first and calls
\* createFolder exactly once for each prefix whose existence check answered
\* false and never for one that exists.
C19_CreatesMissingPrefixes ==
  [][\A t \in Tasks : EnsureStep(t) => AllCallsRight(files, folders, tasks'[t].ensured)]_vars

\* One call on a path of three segments found the year and month folders
\* missing and created both, the year first; the invocation went on.
C19_Witness ==
  \E t \in Running : \E i \in DOMAIN tasks[t].ensured :
    LET e == tasks[t].ensured[i] IN
    /\ Len(e.path) = 3 /\ Len(e.calls) = 2
    /\ e.calls[1] = SubSeq(e.path, 1, 2) /\ e.calls[2] = e.path
    /\ tasks[t].error = "none"

\* C20 - the heartbeat period used by scheduleDailyCheck is at least five
\* minutes for every value of checkIntervalMinutes that the loaded
\* configuration can hold.
C20_HeartbeatAtLeastFiveMinutes ==
  \A i \in DOMAIN intervals : intervals[i] >= 5 * 60 * 1000

\* The invocations between their start and their end.
InFlight == {t \in Tasks : tasks[t].pc \notin {"idle", "done"}}

\* Invocation t is past the gate, which found no summary, and has not
\* written.
PastGate(t) ==
  /\ tasks[t].pc \in {"lookup", "llm"}
  /\ ~tasks[t].force /\ ~tasks[t].summaryExisted /\ ~tasks[t].wrote

\* C21 - at most one pipeline invocation is in flight at any time: no
\* second invocation starts between the start and the end of another, so
\* no two invocations for the same day are both past the gate before
\* either writes.
C21_OneInFlight ==
  /\ Cardinality(InFlight) <= 1
  /\ \A t, u \in Tasks :
       (t # u /\ PastGate(t) /\ PastGate(u)) => tasks[t].dateStamp # tasks[u].dateStamp

\* The invocations made by onload and by the heartbeat.
Heartbeats == {"startup", "tick"}

\* r, an invocation in the Archivist, has nothing left to move.
ArchivistComplete(r) ==
  \/ r.pc = "sortSummaries"
  \/ r.pc = "moveSummaries" /\ Cardinality(r.listing) = 1

YesterdayNoteReady ==
  \E p \in NoteArtifacts(getYesterdayStamp(clock)) :
    Len(Trim(files[p])) >= MinNoteLength

\* C23 - if yesterday's note exists with at least 20 trimmed characters,
\* heartbeat ticks keep occurring during the day and the backend at some
\* time answers with status 200 and a non-empty summary, then a summary
\* artifact for that day eventually exists; earlier failed attempts never
\* block later ticks from retrying.
C23_EventualProduction ==
  YesterdayNoteReady ~> (SummaryArtifacts(getYesterdayStamp(clock)) # {})

\* name is ten characters of date followed by exactly the suffix.
IsDatedFileName(name, suffix) ==
  /\ Len(name) = 10 + Len(suffix)
  /\ \A i \in {1, 2, 3, 4, 6, 7, 9, 10} :
       name[i] \in {"0", "1", "2", "3", "4", "5", "6", "7", "8", "9"}
  /\ name[5] = "-" /\ name[8] = "-"
  /\ \A i \in 1..Len(suffix) : name[10 + i] = suffix[i]

\* The files lying directly in a base folder whose name is not of the
\* folder's pattern.
Strays(fs) ==
  {p \in DOMAIN fs :
     \/ ParentOf(p) = dailyNotesFolder
          /\ ~IsDatedFileName(p[Len(p)], <<".", "m", "d">>)
     \/ ParentOf(p) = outputFolder
          /\ ~IsDatedFileName(p[Len(p)], <<"_", "s", "u", "m", "m", "a", "r", "y", ".", "m", "d">>)}

\* q is a year or month folder of a file of the listing.
FolderOfListed(q, listing) ==
  \E f \in listing :
    LET name == f[Len(f)]
        nested == ParentOf(f) \o <<SubSeq(name, 1, 4), SubSeq(name, 6, 7)>>
    IN q \in {SubSeq(nested, 1, k) : k \in 1..Len(nested)}

\* C24 - the Archivist leaves untouched every directly listed file whose
\* name does not match the pattern of its pass: no rename is issued for it,
\* no folder is created for it and no error is raised because of it.
C24_StraysUntouched ==
  [][\A t \in Tasks :
       ArchivistStep(t) =>
         /\ \A p \in Strays(files) :
              /\ p \in DOMAIN files' /\ files'[p] = files[p]
              /\ p \notin tasks'[t].listing
         /\ \A q \in folders' \ folders : FolderOfListed(q, tasks[t].listing \ Strays(files))
         /\ tasks'[t].error # "none" => tasks[t].listing \ Strays(files) # {}
    ]_vars

\* A pass has ended without error in folders that hold strays, after it
\* moved a dated file.
C24_Witness ==
  \E t \in Done :
    /\ tasks[t].outcome = "sorted" /\ tasks[t].error = "none"
    /\ tasks[t].ensured # <<>>
    /\ \E p, q \in Strays(files) : ParentOf(p) = dailyNotesFolder /\ ParentOf(q) = outputFolder
    /\ dailyNotesFolder \o <<<<"x">> \o NoteName(getYesterdayStamp(2))>> \in DOMAIN files

\* The two places of the summary of day d, flat and under year and month.
OwnSummaryPaths(d) ==
  LET name == d \o <<"_", "s", "u", "m", "m", "a", "r", "y", ".", "m", "d">>
  IN {outputFolder \o <<name>>, outputFolder \o <<SubSeq(d, 1, 4), SubSeq(d, 6, 7), name>>}

\* Invocation t takes a step of the Day Processor.
DayProcessorStep(t) ==
  tasks[t].pc \in {"gate", "lookup", "llm"} /\ tasks'[t] # tasks[t]

\* C25 - the Day Processor treats notes as read-only: in every invocation
\* and for every outcome the only paths it writes or creates are the
\* summary path of the given day and that path's ancestor folders; it never
\* writes, renames or removes a note and never touches the summary of
\* another day.
C25_NotesReadOnly ==
  [][\A t \in Tasks :
       DayProcessorStep(t) =>
         /\ \A p \in DOMAIN files : p \in DOMAIN files'
         /\ \A p \in DOMAIN files' :
              p \notin OwnSummaryPaths(tasks[t].dateStamp) =>
                p \in DOMAIN files /\ files'[p] = files[p]
         /\ folders \subseteq folders'
         /\ \A q \in folders' \ folders :
              \E p \in OwnSummaryPaths(tasks[t].dateStamp) :
                q \in {SubSeq(p, 1, k) : k \in 1..(Len(p) - 1)}
    ]_vars

\* An invocation has written its day's summary; the day's note and the
\* summary of another day lie in the vault.
C25_Witness ==
  \E t \in Done :
    /\ tasks[t].wrote
    /\ NoteArtifacts(tasks[t].dateStamp) # {}
    /\ \E d \in Stamps : d # tasks[t].dateStamp /\ SummaryArtifacts(d) # {}

\* C26 - when a storage operation of the Archivist fails for one file
\* during a heartbeat tick, the remaining files of the pass are still
\* processed, the Day Processor still runs for yesterday in the same tick
\* and no error escapes the tick callback.
C26_ArchivistFailureIsolated ==
  [][\A t \in Tasks :
       (tasks[t].kind \in Heartbeats /\ ArchivistStep(t)) =>
         /\ ~tasks'[t].escaped
         /\ tasks'[t].pc \in SortPcs \cup {"gate"}
         /\ tasks'[t].pc = "gate" => tasks'[t].dateStamp = tasks[t].yesterday
    ]_vars

\* C27 - one Day Processor invocation shows at most one notice; if it is
\* the failure notice, the invocation wrote no summary artifact and did not
\* change lastProcessedDate; and lastProcessedDate is set only in an
\* invocation that wrote the day's summary artifact and persisted the
\* settings.
C27_OutcomeConsistency ==
  \A t \in Running :
    tasks[t].dateStamp # Null =>
      /\ Len(tasks[t].notices) <= 1
      /\ tasks[t].notices = <<"failed">> => (~tasks[t].wrote /\ ~tasks[t].lpdSet)
      /\ tasks[t].lpdSet => (tasks[t].wrote /\ tasks[t].outcome = "saved")

\* C28 - no note becomes unreachable for its own day: if a note for day d
\* was created flat in the notes folder at an earlier time and sorting is
\* enabled, then on day d a forced "generate today's digest" finds it at
\* getDailyNotePath(d), after any sequence of Archivist runs on earlier
\* days.
C28_NoteReachableOnItsDay ==
  \A t \in Done :
    ( /\ tasks[t].kind = "todayCmd" /\ tasks[t].force
      /\ settings.sortDailyNotesAndSummaries
      /\ NoteArtifacts(tasks[t].dateStamp) # {} ) => ~tasks[t].noteMissing
====
